---- MODULE Spec2Model ----
(***************************************************************************)
(* TornoTradeCraft: the process-wide disk cache accessor, the DataFrame    *)
(* cache adapter (save_df_to_cache / load_df_from_cache), the asset        *)
(* ingestion (update_asset_file) and YahooFinanceProvider's symbol         *)
(* loading.  Every call is one atomic step: the code is single-threaded    *)
(* and synchronous.  Failures of the libraries underneath (diskcache,      *)
(* parquet codec, filesystem) are inputs of the calls.                     *)
(***************************************************************************)
EXTENDS Integers, Sequences, FiniteSets, TLC

VARIABLES _cache, nConstructed, nRegistered, returned, cacheDirExists,
          cache, assetsDir, assets, last, lastGiven, lastStored

vars == <<_cache, nConstructed, nRegistered, returned, cacheDirExists,
          cache, assetsDir, assets, last, lastGiven, lastStored>>

singletonVars == <<_cache, nConstructed, nRegistered, returned, cacheDirExists>>
assetVars == <<assetsDir, assets>>
ghostVars == <<lastGiven, lastStored>>

(***************************************************************************)
(* Bounds                                                                  *)
(***************************************************************************)
MaxRows == 2
MaxRawRows == 1
MaxInstances == 2

(***************************************************************************)
(* Cells, tables and the columnar encoding                                 *)
(***************************************************************************)
StrCell(s) == [kind |-> "str", val |-> s]
NoneCell == [kind |-> "None", val |-> ""]
NaNCell == [kind |-> "NaN", val |-> ""]

\* Python's str(): str(None) = "None", str(float("nan")) = "nan"
PyStr(c) ==
    CASE c.kind = "None" -> "None"
      [] c.kind = "NaN" -> "nan"
      [] OTHER -> c.val

\* pandas' missing-value test (isna / dropna): None and NaN are both missing
IsNull(c) == c.kind \in {"None", "NaN"}

DataFrame(cols, rws) == [isDataFrame |-> TRUE, columns |-> cols, rows |-> rws]
NotADataFrame == [isDataFrame |-> FALSE, columns |-> <<>>, rows |-> <<>>]

\* DataFrame.empty: any axis has length 0
Empty(df) == Len(df.columns) = 0 \/ Len(df.rows) = 0

\* an encoder that writes the column names in the wrong order
to_parquet_mislabelled(df) ==
    [magic |-> "PAR1",
     schema |-> [c \in 1..Len(df.columns) |-> df.columns[Len(df.columns) + 1 - c]],
     nrows |-> Len(df.rows),
     chunks |-> [c \in 1..Len(df.columns) |->
                    [r \in 1..Len(df.rows) |-> df.rows[r][c]]]]

\* the bytes of a parquet file: magic, schema, then one chunk per column
to_parquet(df) ==
    [magic |-> "PAR1",
     schema |-> df.columns,
     nrows |-> Len(df.rows),
     chunks |-> [c \in 1..Len(df.columns) |->
                    [r \in 1..Len(df.rows) |-> df.rows[r][c]]]]

CanDecode(bytes) == bytes.magic = "PAR1"

read_parquet(bytes) ==
    DataFrame(bytes.schema,
              [r \in 1..bytes.nrows |->
                  [c \in 1..Len(bytes.schema) |-> bytes.chunks[c][r]]])

CorruptBytes == [magic |-> "junk", schema |-> <<>>, nrows |-> 0, chunks |-> <<>>]
EmptyBytes == [magic |-> "", schema |-> <<>>, nrows |-> 0, chunks |-> <<>>]

\* values cache.get can hand back
CacheNone == [kind |-> "None", data |-> EmptyBytes]
CacheObject == [kind |-> "object", data |-> EmptyBytes]
CacheBytes(b) == [kind |-> "bytes", data |-> b]

\* Python truthiness of a cached value: None and b"" are falsy
Truthy(v) == v.kind # "None" /\ ~(v.kind = "bytes" /\ v.data = EmptyBytes)

NoResult == NotADataFrame

(***************************************************************************)
(* Input domains                                                           *)
(***************************************************************************)
Keys == {"YahooFinance.parquet", "other"}
AssetNames == {"YahooFinance.parquet", "tickers.parquet"}

\* rows over the columns (Ticker, Name); tables are windows of this list
MasterRows ==
    << <<StrCell("AAPL"), StrCell("Apple")>>,
       <<NoneCell, NaNCell>>,
       <<NaNCell, StrCell("Acme")>> >>

\* the contiguous runs of a list, and those of at most n elements
Windows(list) ==
    {<<>>} \cup {SubSeq(list, i, j) : i \in 1..Len(list), j \in 1..Len(list)}

BoundedWindows(list, n) == {w \in Windows(list) : Len(w) <= n}

ColumnChoices == {<<"Ticker", "Name">>, <<"Name">>}

ColumnOf(name) == IF name = "Ticker" THEN 1 ELSE 2

Project(cols, rws) ==
    [r \in 1..Len(rws) |-> [c \in 1..Len(cols) |-> rws[r][ColumnOf(cols[c])]]]

SaveInputs ==
    {NotADataFrame, DataFrame(<<>>, <<>>)}
        \cup {DataFrame(<<"Ticker", "Name">>, w) : w \in BoundedWindows(MasterRows, MaxRows)}

AssetTables ==
    {DataFrame(cols, Project(cols, w)) :
        cols \in ColumnChoices, w \in BoundedWindows(MasterRows, MaxRows)}

SaveFaults == {"none", "encode", "write"}
ForeignValues == {CacheObject, CacheBytes(CorruptBytes), CacheBytes(EmptyBytes)}

\* the cells of an input file as the csv / excel reader hands them over
RawMaster ==
    << <<NaNCell, NaNCell>>,
       <<NaNCell, StrCell("Acme")>> >>

Headers == {<<StrCell("Ticker"), StrCell("Name")>>}

\* an input file: its rows, none for an empty file
RawFiles ==
    {[rows |-> <<>>]}
        \cup {[rows |-> <<h>> \o w] :
                 h \in Headers, w \in BoundedWindows(RawMaster, MaxRawRows)}

Stems == {"tickers"}
Suffixes == {".csv", ".XLSX", ".txt"}
Paths == [stem : Stems, suffix : Suffixes]
NoName == "<None>"
ParquetNames == {NoName}

(***************************************************************************)
(* cache.py                                                                *)
(***************************************************************************)
\* get_diskcache without the "if _cache is None" test
get_diskcache_always(inst, made, hooks, dirFault, ctorFault) ==
    IF dirFault THEN [inst |-> inst, made |-> made, hooks |-> hooks, dir |-> FALSE,
                      exc |-> "OSError", value |-> 0]
    ELSE IF ctorFault THEN [inst |-> inst, made |-> made, hooks |-> hooks, dir |-> TRUE,
                            exc |-> "CacheError", value |-> 0]
    ELSE [inst |-> made + 1, made |-> made + 1, hooks |-> hooks + 1, dir |-> TRUE,
          exc |-> "none", value |-> made + 1]

\* inst = 0 stands for None; instances are numbered in construction order
get_diskcache(inst, made, hooks, dirFault, ctorFault) ==
    IF inst = 0
    THEN IF dirFault
         THEN [inst |-> inst, made |-> made, hooks |-> hooks, dir |-> FALSE,
               exc |-> "OSError", value |-> 0]
         ELSE IF ctorFault
         THEN [inst |-> inst, made |-> made, hooks |-> hooks, dir |-> TRUE,
               exc |-> "CacheError", value |-> 0]
         ELSE [inst |-> made + 1, made |-> made + 1, hooks |-> hooks + 1, dir |-> TRUE,
               exc |-> "none", value |-> made + 1]
    ELSE [inst |-> inst, made |-> made, hooks |-> hooks, dir |-> FALSE,
          exc |-> "none", value |-> inst]

(***************************************************************************)
(* utils/cache_crud.py                                                     *)
(***************************************************************************)
\* a handler that lets the exception through
Reraise(exc) == exc

\* what an "except Exception:" clause that does not re-raise leaves
Swallow(exc) == "none"

\* the body of the try block of save_df_to_cache
SaveTry(store, key, df, fault) ==
    IF fault = "encode" THEN [store |-> store, exc |-> "EncodeError"]
    ELSE IF fault = "write" THEN [store |-> store, exc |-> "CacheError"]
    ELSE [store |-> [store EXCEPT ![key] = CacheBytes(to_parquet(df))], exc |-> "none"]

save_df_to_cache(store, key, df, fault) ==
    IF ~df.isDataFrame \/ Empty(df)
    THEN [store |-> store, exc |-> "none"]
    ELSE LET t == SaveTry(store, key, df, fault)
         IN [store |-> t.store, exc |-> Swallow(t.exc)]

\* a load that treats every entry as a miss
load_df_from_cache_miss(store, key, readFault) ==
    IF readFault THEN [exc |-> "CacheError", value |-> NoResult, why |-> "read"]
    ELSE [exc |-> "none", value |-> NoResult, why |-> "miss"]

\* cache.get is called before the try block: what it raises reaches the caller
load_df_from_cache(store, key, readFault) ==
    IF readFault THEN [exc |-> "CacheError", value |-> NoResult, why |-> "read"]
    ELSE LET cached_bytes == store[key]
         IN IF Truthy(cached_bytes) /\ cached_bytes.kind = "bytes"
            THEN IF CanDecode(cached_bytes.data)
                 THEN [exc |-> "none", value |-> read_parquet(cached_bytes.data),
                       why |-> "hit"]
                 ELSE [exc |-> Swallow("DecodeError"), value |-> NoResult,
                       why |-> "decode"]
            ELSE IF cached_bytes.kind = "None"
            THEN [exc |-> "none", value |-> NoResult, why |-> "miss"]
            ELSE [exc |-> "none", value |-> NoResult, why |-> "other"]

(***************************************************************************)
(* utils/assets_crud.py                                                    *)
(***************************************************************************)
\* str.lower() on the suffix of the path
Lower(suffix) ==
    CASE suffix = ".CSV" -> ".csv"
      [] suffix = ".XLSX" -> ".xlsx"
      [] OTHER -> suffix

\* df.dropna(axis=0, how="all")
RECURSIVE dropna_all(_)
dropna_all(rws) ==
    IF rws = <<>> THEN <<>>
    ELSE IF \A c \in 1..Len(Head(rws)) : IsNull(Head(rws)[c])
         THEN dropna_all(Tail(rws))
         ELSE <<Head(rws)>> \o dropna_all(Tail(rws))

\* df.astype(str)
astype_str(rws) ==
    [r \in 1..Len(rws) |-> [c \in 1..Len(rws[r]) |-> StrCell(PyStr(rws[r][c]))]]

parse_asset_file(raw, file_type) ==
    IF file_type \notin {"csv", "xlsx"}
    THEN [exc |-> "ValueError", df |-> NoResult]
    ELSE IF raw.rows = <<>> THEN [exc |-> "ParseError", df |-> NoResult]
    ELSE LET new_column_names == [c \in 1..Len(raw.rows[1]) |-> raw.rows[1][c].val]
             body == Tail(raw.rows)
         IN [exc |-> "none",
             df |-> DataFrame(new_column_names, astype_str(dropna_all(body)))]

FileAbsent == [kind |-> "None", data |-> EmptyBytes]
FileBytes(b) == [kind |-> "bytes", data |-> b]

\* fs = [dir |-> the assets directory exists, files |-> its files by name]
convert_to_parquet_and_store(fs, df, parquet_name, writeFault) ==
    LET made == [fs EXCEPT !.dir = TRUE]
    IN IF parquet_name = NoName THEN [fs |-> made, exc |-> "ValueError"]
       ELSE IF writeFault THEN [fs |-> made, exc |-> "RuntimeError"]
       ELSE [fs |-> [made EXCEPT !.files[parquet_name] = FileBytes(to_parquet(df))],
             exc |-> "none"]

EndsWithParquet(name) == name \in {"YahooFinance.parquet", "tickers.parquet"}
PlusParquet(name) ==
    CASE name = "YahooFinance" -> "YahooFinance.parquet"
      [] name = "tickers" -> "tickers.parquet"
      [] OTHER -> name

\* an extension test that falls through to the csv reader
file_type_of_lenient(suffix) ==
    IF suffix \in {".xls", ".xlsx"} THEN "xlsx" ELSE "csv"

\* the if / elif / else on the lowered suffix; "unsupported" is the raise
file_type_of(suffix) ==
    IF suffix = ".csv" THEN "csv"
    ELSE IF suffix \in {".xls", ".xlsx"} THEN "xlsx"
    ELSE "unsupported"

update_asset_file(fs, p, parquet_name, raw, writeFault) ==
    LET suffix == Lower(p.suffix)
        file_type == file_type_of(suffix)
    IN IF file_type = "unsupported" THEN [fs |-> fs, exc |-> "ValueError", parsed |-> FALSE]
       ELSE LET parsed == parse_asset_file(raw, file_type)
                name == IF parquet_name = NoName THEN PlusParquet(p.stem)
                        ELSE IF EndsWithParquet(parquet_name) THEN parquet_name
                        ELSE PlusParquet(parquet_name)
            IN IF parsed.exc # "none" THEN [fs |-> fs, exc |-> parsed.exc, parsed |-> TRUE]
               ELSE LET w == convert_to_parquet_and_store(fs, parsed.df, name, writeFault)
                    IN [fs |-> w.fs, exc |-> w.exc, parsed |-> TRUE]

(***************************************************************************)
(* providers/yahoofinance_provider.py                                      *)
(***************************************************************************)
ProviderName == "YahooFinance"
cache_key == PlusParquet(ProviderName)

HasColumn(df, col) == \E c \in 1..Len(df.columns) : df.columns[c] = col

\* rec.get(col, None) on row r of df.to_dict(orient="records")
RecGet(df, r, col) ==
    IF HasColumn(df, col)
    THEN df.rows[r][CHOOSE c \in 1..Len(df.columns) : df.columns[c] = col]
    ELSE NoneCell

SymbolInfo(df, r) ==
    [symbol |-> PyStr(RecGet(df, r, "Ticker")),
     name |-> RecGet(df, r, "Name"),
     exchange |-> RecGet(df, r, "Exchange"),
     category_name |-> RecGet(df, r, "Category Name"),
     country |-> RecGet(df, r, "Country"),
     currency |-> RecGet(df, r, "Currency")]

\* the loop over the records, from row r on: only "ticker is None" skips a row
RECURSIVE SymbolsFrom(_, _)
SymbolsFrom(df, r) ==
    IF r > Len(df.rows) THEN <<>>
    ELSE IF RecGet(df, r, "Ticker").kind = "None" THEN SymbolsFrom(df, r + 1)
    ELSE <<SymbolInfo(df, r)>> \o SymbolsFrom(df, r + 1)

\* from the column check to the return
MapSymbols(df, store, source) ==
    IF ~HasColumn(df, "Ticker")
    THEN [store |-> store, exc |-> "ValueError", symbols |-> <<>>, source |-> source,
          table |-> df]
    ELSE [store |-> store, exc |-> "none", symbols |-> SymbolsFrom(df, 1),
          source |-> source, table |-> df]

\* a provider that never saves what it read from the asset file
Populate_skip(store, df, saveFault) ==
    [store |-> store, exc |-> "none"]

\* the best-effort save inside try / except Exception: pass
Populate(store, df, saveFault) ==
    LET saved == save_df_to_cache(store, cache_key, df, saveFault)
    IN [store |-> saved.store, exc |-> Swallow(saved.exc)]

get_supported_symbols(store, files, readFault, saveFault) ==
    LET parquet_path == PlusParquet(ProviderName)
        loaded == load_df_from_cache(store, cache_key, readFault)
        failed(exc) == [store |-> store, exc |-> exc, symbols |-> <<>>, source |-> "none",
                        table |-> NoResult]
    IN IF loaded.exc # "none" THEN failed(loaded.exc)
       ELSE IF loaded.value = NoResult
       THEN IF files[parquet_path] = FileAbsent THEN failed("FileNotFoundError")
            ELSE IF ~CanDecode(files[parquet_path].data) THEN failed("DecodeError")
            ELSE LET df == read_parquet(files[parquet_path].data)
                     saved == Populate(store, df, saveFault)
                 IN MapSymbols(df, saved.store, "asset")
       ELSE MapSymbols(loaded.value, store, "cache")

(***************************************************************************)
(* State machine                                                           *)
(***************************************************************************)
\* the record of the last call: its operation, its key or suffix argument, the
\* exception it raised, the table and the symbols it produced, the branch it
\* took and the fault its save was made to meet
Call(op, key, exc, value, symbols, note, fault) ==
    [op |-> op, key |-> key, exc |-> exc, value |-> value, symbols |-> symbols,
     note |-> note, fault |-> fault]

Init ==
    /\ _cache = 0
    /\ nConstructed = 0
    /\ nRegistered = 0
    /\ returned = {}
    /\ cacheDirExists = FALSE
    /\ cache = [k \in Keys |-> CacheNone]
    /\ assetsDir = FALSE
    /\ assets = [n \in AssetNames |-> FileAbsent]
    /\ last = Call("init", "", "none", NoResult, <<>>, "", "")
    /\ lastGiven = [k \in Keys |-> NoResult]
    /\ lastStored = [k \in Keys |-> NoResult]

\* a call of get_diskcache(); the first one is made when cache_crud is imported
GetDiskcache ==
    /\ nConstructed < MaxInstances
    /\ \E dirFault \in BOOLEAN, ctorFault \in BOOLEAN :
         LET r == get_diskcache(_cache, nConstructed, nRegistered, dirFault, ctorFault)
         IN /\ _cache' = r.inst
            /\ nConstructed' = r.made
            /\ nRegistered' = r.hooks
            /\ cacheDirExists' = (cacheDirExists \/ r.dir)
            /\ returned' = IF r.exc = "none" THEN returned \cup {r.value} ELSE returned
            /\ last' = Call("get_diskcache", "", r.exc, NoResult, <<>>,
                            IF _cache = 0 THEN "first" ELSE "later", "")
    /\ UNCHANGED <<cache, assetVars, ghostVars>>

\* history of the direct save_df_to_cache calls: the table last handed over under
\* a key and the table last stored under it, forgotten when anything else
\* rewrites or drops the entry
Given(key, df) ==
    IF df.isDataFrame /\ ~Empty(df) THEN [lastGiven EXCEPT ![key] = df] ELSE lastGiven
Stored(key, df, fault) ==
    IF df.isDataFrame /\ ~Empty(df) /\ fault = "none"
    THEN [lastStored EXCEPT ![key] = df] ELSE lastStored

\* cache_crud binds cache = get_diskcache() when it is imported: its functions
\* exist only once that call has returned the instance
SaveDf ==
    /\ _cache # 0
    /\ \E key \in Keys, df \in SaveInputs, fault \in SaveFaults :
        LET r == save_df_to_cache(cache, key, df, fault)
        IN /\ cache' = r.store
           /\ last' = Call("save", key, r.exc, NoResult, <<>>,
                           IF ~df.isDataFrame \/ Empty(df) THEN "skip" ELSE "try", fault)
           /\ lastGiven' = Given(key, df)
           /\ lastStored' = Stored(key, df, fault)
    /\ UNCHANGED <<singletonVars, assetVars>>

LoadDf ==
    /\ _cache # 0
    /\ \E key \in Keys, readFault \in BOOLEAN :
        LET r == load_df_from_cache(cache, key, readFault)
        IN last' = Call("load", key, r.exc, r.value, <<>>, r.why, "")
    /\ UNCHANGED <<singletonVars, cache, assetVars, ghostVars>>

\* the disk cache's own policy (size limit, least-recently-used) drops an entry
Evict ==
    /\ \E key \in Keys :
        /\ cache[key] # CacheNone
        /\ cache' = [cache EXCEPT ![key] = CacheNone]
        /\ lastGiven' = [lastGiven EXCEPT ![key] = NoResult]
        /\ lastStored' = [lastStored EXCEPT ![key] = NoResult]
        /\ last' = Call("environment", "", "none", NoResult, <<>>, "", "")
    /\ UNCHANGED <<singletonVars, assetVars>>

\* another user of the shared cache stores a value that is not a parquet table
ForeignSet ==
    /\ \E key \in Keys, v \in ForeignValues :
        /\ cache' = [cache EXCEPT ![key] = v]
        /\ lastGiven' = [lastGiven EXCEPT ![key] = NoResult]
        /\ lastStored' = [lastStored EXCEPT ![key] = NoResult]
        /\ last' = Call("environment", "", "none", NoResult, <<>>, "", "")
    /\ UNCHANGED <<singletonVars, assetVars>>

\* the provider module imports cache_crud, hence the same guard
GetSupportedSymbols ==
    /\ _cache # 0
    /\ \E readFault \in BOOLEAN, saveFault \in SaveFaults :
        LET r == get_supported_symbols(cache, assets, readFault, saveFault)
        IN /\ cache' = r.store
           /\ last' = Call("get_supported_symbols", cache_key, r.exc, r.table, r.symbols,
                           r.source, IF r.source = "asset" THEN saveFault ELSE "")
           /\ lastGiven' = IF r.store # cache THEN [lastGiven EXCEPT ![cache_key] = NoResult]
                           ELSE lastGiven
           /\ lastStored' = IF r.store # cache THEN [lastStored EXCEPT ![cache_key] = NoResult]
                            ELSE lastStored
    /\ UNCHANGED <<singletonVars, assetVars>>

Ingest(op, p, parquet_name, raw, writeFault) ==
    LET r == update_asset_file([dir |-> assetsDir, files |-> assets], p, parquet_name,
                               raw, writeFault)
    IN /\ assetsDir' = r.fs.dir
       /\ assets' = r.fs.files
       /\ last' = Call(op, p.suffix, r.exc, NoResult, <<>>,
                       IF r.parsed THEN "parsed" ELSE "", "")

UpdateAssetFile ==
    /\ \E p \in Paths, parquet_name \in ParquetNames, raw \in RawFiles,
          writeFault \in BOOLEAN :
        Ingest("update_asset_file", p, parquet_name, raw, writeFault)
    /\ UNCHANGED <<singletonVars, cache, ghostVars>>

UpdateSupportedSymbols ==
    /\ _cache # 0
    /\ \E p \in Paths, raw \in RawFiles, writeFault \in BOOLEAN :
        Ingest("update_supported_symbols", p, ProviderName, raw, writeFault)
    /\ UNCHANGED <<singletonVars, cache, ghostVars>>

\* the package is installed with a provider asset file
InstallAsset ==
    /\ \E content \in {FileBytes(to_parquet(t)) : t \in AssetTables}
                        \cup {FileBytes(CorruptBytes)} :
        /\ assets' = [assets EXCEPT ![PlusParquet(ProviderName)] = content]
        /\ assetsDir' = TRUE
    /\ last' = Call("packaging", "", "none", NoResult, <<>>, "", "")
    /\ UNCHANGED <<singletonVars, cache, ghostVars>>

\* the provider asset file is removed
RemoveAsset ==
    /\ assets[PlusParquet(ProviderName)] # FileAbsent
    /\ assets' = [assets EXCEPT ![PlusParquet(ProviderName)] = FileAbsent]
    /\ last' = Call("packaging", "", "none", NoResult, <<>>, "", "")
    /\ UNCHANGED <<singletonVars, cache, assetsDir, ghostVars>>

NextCache == GetDiskcache \/ SaveDf \/ LoadDf \/ Evict \/ ForeignSet

SpecCache == Init /\ [][NextCache]_vars

NextProvider ==
    \/ GetDiskcache
    \/ GetSupportedSymbols
    \/ UpdateAssetFile
    \/ UpdateSupportedSymbols
    \/ InstallAsset
    \/ RemoveAsset
    \/ Evict
    \/ ForeignSet

SpecProvider == Init /\ [][NextProvider]_vars


(***************************************************************************)
(* Properties of the cache adapter and the cache accessor                  *)
(***************************************************************************)
IsLoad == last.op = "load"
IsSave == last.op = "save"

C2_Singleton ==
    /\ [](/\ nConstructed <= 1
          /\ nRegistered <= 1
          /\ Cardinality(returned) <= 1
          /\ (_cache # 0 => returned = {_cache})
          /\ (_cache = 0 => returned = {}))
    /\ [][_cache # 0 => (_cache' = _cache /\ nConstructed' = nConstructed
                          /\ nRegistered' = nRegistered)]_vars

\* a call made after the instance was constructed has returned
C2_Witness ==
    /\ last.op = "get_diskcache" /\ last.note = "later" /\ last.exc = "none"
    /\ nConstructed = 1 /\ nRegistered = 1 /\ returned = {1}

\* C3: save_df_to_cache never raises; handed an empty table or something that
\* is not a table it changes no entry, and when encoding or the cache write
\* fails it returns normally (and changes no entry).
C3_SaveNeverRaises ==
    /\ [](IsSave => last.exc = "none")
    /\ [][(last'.op = "save" /\ (last'.note = "skip" \/ last'.fault # "none"))
            => cache' = cache]_vars

\* a save whose encoding or cache write failed has returned
C3_Witness ==
    IsSave /\ last.note = "try" /\ last.fault \in {"encode", "write"} /\ last.exc = "none"

\* the table load_df_from_cache is to return for a stored value, per C4
C4_Expected(v) ==
    IF v.kind = "bytes" /\ CanDecode(v.data) THEN read_parquet(v.data) ELSE NoResult

\* C4 as stated: load_df_from_cache never raises, also when the cache read or
\* the decoding fails; it returns absent on a miss, on a value that is not
\* bytes and on a decode failure, else the decoded table, and leaves the
\* cache as it was.
C4_LoadNeverRaises ==
    [][(last'.op = "load")
        => /\ last'.exc = "none"
           /\ cache' = cache
           /\ (last'.note # "read" => last'.value = C4_Expected(cache[last'.key]))]_vars

(***************************************************************************)
(* Properties of the provider and of the ingestion                         *)
(***************************************************************************)
IsGet == last.op = "get_supported_symbols"
IngestOps == {"update_asset_file", "update_supported_symbols"}
SupportedSuffixes == {".csv", ".CSV", ".xls", ".XLS", ".xlsx", ".XLSX"}

AssetFile == assets[PlusParquet(ProviderName)]
AssetTable == read_parquet(AssetFile.data)
AssetDecodes == AssetFile.kind = "bytes" /\ CanDecode(AssetFile.data)

\* the entry of the provider's key holds an encoded table
Cached(store) == store[cache_key].kind = "bytes" /\ CanDecode(store[cache_key].data)
CachedTable(store) == read_parquet(store[cache_key].data)

\* C5 as stated: when the asset file exists and decodes to a table with a
\* Ticker column, a call that gets no table from the cache (read failure,
\* corrupt or non-bytes entry, miss) returns the symbols of the asset table,
\* whether or not the save back succeeds.
C5_CacheFailuresNeverAbort ==
    [][(last'.op = "get_supported_symbols" /\ last'.note # "cache"
            /\ AssetDecodes /\ HasColumn(AssetTable, "Ticker"))
        => (last'.exc = "none" /\ last'.symbols = SymbolsFrom(AssetTable, 1))]_vars

RECURSIVE C7_Expected(_, _)
C7_Expected(df, r) ==
    IF r > Len(df.rows) THEN <<>>
    ELSE LET field(col) ==
                 IF \E c \in 1..Len(df.columns) : df.columns[c] = col
                 THEN df.rows[r][CHOOSE c \in 1..Len(df.columns) : df.columns[c] = col]
                 ELSE NoneCell
             rest == C7_Expected(df, r + 1)
         IN IF IsNull(field("Ticker")) THEN rest
            ELSE <<[symbol |-> field("Ticker").val, name |-> field("Name"),
                    exchange |-> field("Exchange"),
                    category_name |-> field("Category Name"),
                    country |-> field("Country"),
                    currency |-> field("Currency")]>> \o rest

\* C7 as stated: from a source table with a Ticker column the call returns one
\* SymbolInfo per row whose ticker is present, in row order, skipping every
\* row whose ticker is absent or null, the optional fields taken from their
\* columns when these exist.
C7_OneSymbolPerTicker ==
    (IsGet /\ last.exc = "none") => last.symbols = C7_Expected(last.value, 1)

\* C8 as stated: with no asset file and an empty cache the call fails with
\* the not-found error and leaves the cache empty; the not-found error is
\* raised only when the cache gave no table.
C8_NotFoundOnColdStart ==
    /\ [][(last'.op = "get_supported_symbols" /\ AssetFile = FileAbsent
             /\ \A k \in Keys : cache[k] = CacheNone)
            => (last'.exc = "FileNotFoundError" /\ cache' = cache)]_vars
    /\ [][(last'.op = "get_supported_symbols" /\ last'.exc = "FileNotFoundError")
            => (~Cached(cache) /\ AssetFile = FileAbsent)]_vars

\* C9: an ingestion of a path whose extension is not .csv, .xls or .xlsx in
\* any letter case fails with the unsupported-extension error, parses
\* nothing, creates no assets directory and writes or changes no asset file.
C9_UnsupportedExtension ==
    [][(last'.op \in IngestOps /\ last'.key \notin SupportedSuffixes)
        => /\ last'.exc = "ValueError"
           /\ last'.note # "parsed"
           /\ assetsDir' = assetsDir
           /\ assets' = assets]_vars

\* an ingestion of a .txt path has failed before the assets directory exists
C9_Witness ==
    /\ last.op \in IngestOps /\ last.key = ".txt" /\ last.exc = "ValueError"
    /\ ~assetsDir

====
